---- MODULE Spec2Model ----
(***************************************************************************)
(* Warbler: the request handlers of app.py over the relational store       *)
(* (users, messages, follows, likes) and the per-client session cookie.    *)
(* A request is a chain of actions, one for each round trip to the         *)
(* database: the load of g.user in add_user_to_g, every query and lazy     *)
(* load of the view function, its db.session.commit(), and the reload of   *)
(* g.user that a redirect to /users/<g.user.id> needs after the commit.    *)
(* An action runs the code from one round trip up to the next one, so that *)
(* the commits of other requests can fall between any two of them.         *)
(* models.py is not part of the available sources; the storage layer       *)
(* (User.signup, User.authenticate, User.confirm_password, the uniqueness  *)
(* constraints and the cascades) is modelled from the specification.       *)
(***************************************************************************)
EXTENDS Bags, FiniteSets, Integers, Sequences, TLC

\* ---------------------------------------------------------------- bounds
\* user ids handed out by the serial column: 1..MaxUserId
MaxUserId == 2
\* message ids handed out by the serial column: 1..MaxMsgId
MaxMsgId == 1
\* values of the server clock that stamps new messages: 1..MaxClock
MaxClock == 2
\* message ids in the specification of the message pages: 1..MaxPosted
MaxPosted == 2
\* message ids in the specification of the long home feed: 1..MaxFeed
MaxFeed == 101

\* ---------------------------------------------------------------- inputs
\* CURR_USER_KEY absent from the session / g.user is None
NoUser == 0
\* the browser sessions (cookies) that talk to the application
Sessions == {1, 2}
UserIds == 1..MaxUserId
MsgIds == 1..MaxMsgId
Methods == {"GET", "POST"}
\* fields of forms: empty, of whitespace only, and filled in
Usernames == {"", " \t", "alice", "bob"}
Emails == {"", "alice@x.com", "bob@x.com"}
Passwords == {"", " \t\n\r\f   ", "abc", "secret1", "secret2"}
Texts == {"", " \n ", " ", "hello"}
\* the longest text the messages table stores
MaxTextLen == 140
\* a text of 141 characters
LongText == "wwwwwwwwwwwwwwwwwwwwwwwwwwwwwwwwwwwwwwwwwwwwwwwwwwwwwwwwwwwwwwwwwwwwwwwwwwwwwwwwwwwwwwwwwwwwwwwwwwwwwwwwwwwwwwwwwwwwwwwwwwwwwwwwwwwwwwwwwwwww"
AllTexts == Texts \cup {LongText}
Salts == {1}
DefaultImage == "/static/images/default-pic.png"
DefaultHeader == "/static/images/warbler-hero.jpg"
\* a NULL bio / location
NoText == "None"
\* optional fields of the forms arrive all blank or all filled in
Optionals == {[image_url |-> "", header_image_url |-> "", bio |-> "", location |-> ""],
              [image_url |-> "img", header_image_url |-> "hdr", bio |-> "bio", location |-> "loc"]}

\* the payload that leaves every optional field empty
Blank == {opt \in Optionals : opt.image_url = ""}

VARIABLES users,        \* users table: id -> row
          messages,     \* messages table: id -> row
          follows,      \* follows table: bag of <<user_following_id, user_being_followed_id>>
          likes,        \* likes table: bag of <<user_id, message_id>>
          session,      \* session[s]: the id under CURR_USER_KEY, NoUser when the key is absent
          nextUserId,   \* serial of users.id
          nextMsgId,    \* serial of messages.id
          clock,        \* server clock that stamps new messages
          response,     \* what the last request reported to its caller
          pending       \* pending[s]: the request of session s between two round trips

vars == <<users, messages, follows, likes, session, nextUserId, nextMsgId, clock, response,
          pending>>
store == <<users, messages, follows, likes>>

\* ------------------------------------------------------- form validators
\* the characters that str.isspace() holds for and that a string of a module
\* can hold: the blank, the ASCII controls 0x09-0x0d and 0x1c-0x1f, NEL (0x85),
\* the no-break space (0xa0) and the Ogham space mark (0x1680)
Whitespace == {" ", "\t", "\n", "\r", "\f", "", "", "", "", "", "", " ", " "}
\* the first position of d from i on that holds no whitespace, Len(d) + 1
\* when there is none
RECURSIVE first_ink(_, _)
first_ink(d, i) ==
    IF i <= Len(d) /\ SubSeq(d, i, i) \in Whitespace THEN first_ink(d, i + 1) ELSE i
\* the last position of d up to i that holds no whitespace, 0 when there is none
RECURSIVE last_ink(_, _)
last_ink(d, i) ==
    IF i >= 1 /\ SubSeq(d, i, i) \in Whitespace THEN last_ink(d, i - 1) ELSE i
\* str.lstrip()
lstrip(d) == SubSeq(d, first_ink(d, 1), Len(d))
\* str.rstrip()
rstrip(d) == SubSeq(d, 1, last_ink(d, Len(d)))
\* str.strip()
strip(d) == rstrip(lstrip(d))
\* wtforms DataRequired: the data is there and is not whitespace only
DataRequired(d) == d # "" /\ strip(d) # ""
\* a UserAddForm whose password field has no Length(min=6)
UserAddFormValid_no_min_length(username, email, password) ==
    DataRequired(username) /\ DataRequired(email) /\ DataRequired(password)

UserAddFormValid(username, email, password) ==
    DataRequired(username) /\ DataRequired(email) /\ DataRequired(password) /\ Len(password) >= 6
LoginFormValid(username, password) == DataRequired(username) /\ DataRequired(password)
EditProfileFormValid(username, email, password) ==
    DataRequired(username) /\ DataRequired(email) /\ DataRequired(password)
MessageFormValid(text) == DataRequired(text)
\* form.validate_on_submit(): the request is a submission and the fields validate
validate_on_submit(method, valid) == method = "POST" /\ valid
\* what the handler reports when validate_on_submit() is false: the form page
FormResponse(method) == IF method = "POST" THEN "ValidationError" ELSE "Form"
\* `data or default`
OrDefault(d, default) == IF d = "" THEN default ELSE d

\* ------------------------------------------------------------ storage layer
\* one-way salted hash and its check
generate_password_hash(salt, password) == [salt |-> salt, digest |-> <<salt, password>>]
check_password_hash(hash, password) == generate_password_hash(hash.salt, password) = hash

\* User.signup: the row that is added to the session
User_signup(username, email, password, image_url, salt) ==
    [username |-> username, email |-> email,
     password |-> generate_password_hash(salt, password),
     image_url |-> image_url, header_image_url |-> DefaultHeader,
     bio |-> NoText, location |-> NoText]

\* a users table whose uniqueness constraint covers the username only
UniqueViolation_username_only(us, id, username, email) ==
    \E o \in DOMAIN us \ {id} : us[o].username = username

\* uniqueness constraints on users.username and users.email: would storing
\* (username, email) in the row `id` clash with another row?
UniqueViolation(us, id, username, email) ==
    \E o \in DOMAIN us \ {id} : us[o].username = username \/ us[o].email = email

UsersNamed(username) == {u \in DOMAIN users : users[u].username = username}

\* User.authenticate: the user id, or NoUser for False
User_authenticate(username, password) ==
    IF UsersNamed(username) = {} THEN NoUser
    ELSE LET u == CHOOSE u \in UsersNamed(username) : TRUE
         IN IF check_password_hash(users[u].password, password) THEN u ELSE NoUser

\* User.confirm_password(id, password)
User_confirm_password(id, password) ==
    id \in DOMAIN users /\ check_password_hash(users[id].password, password)

\* relationship collections
following(u) == {p[2] : p \in {q \in BagToSet(follows) : q[1] = u}}
followers(u) == {p[1] : p \in {q \in BagToSet(follows) : q[2] = u}}
user_likes(u) == {p[2] : p \in {q \in BagToSet(likes) : q[1] = u}}
user_messages(u) == {m \in DOMAIN messages : messages[m].user_id = u}
is_following(u, other) == other \in following(u)
is_followed_by(u, other) == other \in followers(u)

Row(r) == SetToBag({r})
\* the rows of a table that are among `keep`, with their multiplicities
Restrict(bag, keep) == [r \in BagToSet(bag) \cap keep |-> bag[r]]
Without(f, ids) == [i \in DOMAIN f \ ids |-> f[i]]

\* -------------------------------------------------------------- sessions
\* an add_user_to_g that takes the id of the session for the user
g_user_trusts_session(s) == session[s]

\* add_user_to_g: g.user, NoUser when the key is absent or names no stored user
g_user(s) == IF session[s] # NoUser /\ session[s] \in DOMAIN users THEN session[s] ELSE NoUser
do_login(s, u) == [session EXCEPT ![s] = u]
do_logout(s) == [session EXCEPT ![s] = NoUser]

\* no request of the session is under way
Idle == [pc |-> "idle"]

Init ==
    /\ pending = [s \in Sessions |-> Idle]
    /\ users = <<>>
    /\ messages = <<>>
    /\ follows = EmptyBag
    /\ likes = EmptyBag
    /\ session = [s \in Sessions |-> NoUser]
    /\ nextUserId = 1
    /\ nextMsgId = 1
    /\ clock = 1
    /\ response = [op |-> "none", result |-> "None"]

\* the reply of the view function `op` to a request that has not left its
\* first round trip
Respond(op, r) == response' = [op |-> op, result |-> r] /\ pending' = pending
\* a reply that leaves the store and the session alone
Refuse(op, r) == Respond(op, r) /\ UNCHANGED <<store, session, nextUserId, nextMsgId, clock>>
\* the request of session s goes on to its next round trip
Stash(s, request) ==
    /\ pending' = [pending EXCEPT ![s] = request]
    /\ UNCHANGED <<store, session, nextUserId, nextMsgId, clock, response>>
\* the reply that ends the request of session s
Reply(s, op, r) ==
    /\ response' = [op |-> op, result |-> r]
    /\ pending' = [pending EXCEPT ![s] = Idle]
\* the reply that ends the request of session s after a read, with the store
\* and the session as they were
Abort(s, op, r) ==
    /\ Reply(s, op, r)
    /\ UNCHANGED <<store, session, nextUserId, nextMsgId, clock>>
\* the commit has gone through and the view function goes on to its redirect
Committed(s, request) == pending' = [pending EXCEPT ![s] = request] /\ response' = response
\* the sessions with no request under way
Free == {s \in Sessions : pending[s].pc = "idle"}
\* the requests of the sessions that have run up to the round trip `pc`
InFlight(pc) == Cardinality({s \in Sessions : pending[s].pc = pc})
\* the replies that are the same from every route: the redirect to "/" of the
\* `if not g.user` / `if g.user` guards and the 404 page of get_or_404
TurnAway(r) == Refuse("any", r)
\* User.query.get_or_404(id) in a request that has loaded g.user as user g:
\* the session hands back the object it holds for the id of g.user, and asks
\* the database for any other id
get_user(g, id) == id = g \/ id \in DOMAIN users
\* g.user.id after the commit has expired g.user: the row is read again, and
\* a row that is gone is an error that no view function catches
Reloaded(g) == IF g \in DOMAIN users THEN "OK" ELSE "UnhandledError"

\* ------------------------------------------------------- signup / login / logout
\* a signup whose IntegrityError branch falls through to do_login(user)
signup_conflict_session_falls_through(s) == do_login(s, nextUserId)

\* session after the IntegrityError branch of signup: it returns before do_login
signup_conflict_session(s) == session

\* a signup that hands the username to User.signup as the password
signup_user_wrong_password(username, email, password, opt, salt) ==
    User_signup(username, email, username, OrDefault(opt.image_url, DefaultImage), salt)

\* the call User.signup(username=..., password=..., email=..., image_url=...)
signup_user(username, email, password, opt, salt) ==
    User_signup(username, email, password, OrDefault(opt.image_url, DefaultImage), salt)

\* signup up to User.signup(...): g.user is loaded, the form is checked and
\* the new row is added to the session
signup_begin(s, method, username, email, password, opt, salt) ==
    /\ pending[s].pc = "idle"
    /\ IF g_user(s) # NoUser THEN TurnAway("AlreadySignedIn")
       ELSE IF ~validate_on_submit(method, UserAddFormValid(username, email, password))
       THEN Refuse("signup", FormResponse(method))
       ELSE Stash(s, [pc |-> "signup_commit",
                      row |-> signup_user(username, email, password, opt, salt)])

\* a commit of signup that stores the row whatever the table holds
signup_commit_unconstrained(s) ==
    /\ pending[s].pc = "signup_commit"
    /\ users' = users @@ (nextUserId :> pending[s].row)
    /\ nextUserId' = nextUserId + 1
    /\ Committed(s, [pc |-> "signup_login", user |-> nextUserId])
    /\ UNCHANGED <<messages, follows, likes, session, nextMsgId, clock>>

\* db.session.commit() of signup: the INSERT meets the uniqueness constraints
\* against the table as it is at the commit, and the IntegrityError branch
\* returns the form page before do_login
signup_commit(s) ==
    /\ pending[s].pc = "signup_commit"
    /\ IF UniqueViolation(users, nextUserId, pending[s].row.username, pending[s].row.email)
       THEN /\ Reply(s, "signup", "Conflict")
            /\ session' = signup_conflict_session(s)
            /\ UNCHANGED <<store, nextUserId, nextMsgId, clock>>
       ELSE /\ users' = users @@ (nextUserId :> pending[s].row)
            /\ nextUserId' = nextUserId + 1
            /\ Committed(s, [pc |-> "signup_login", user |-> nextUserId])
            /\ UNCHANGED <<messages, follows, likes, session, nextMsgId, clock>>

\* do_login(user) of signup: user.id reads the row again, since the commit
\* has expired it; a row that another request has deleted since the commit
\* is an error that signup does not catch, and the cookie is not set
signup_login(s) ==
    /\ pending[s].pc = "signup_login"
    /\ IF Reloaded(pending[s].user) = "OK"
       THEN /\ session' = do_login(s, pending[s].user)
            /\ Reply(s, "signup", "OK")
            /\ UNCHANGED <<store, nextUserId, nextMsgId, clock>>
       ELSE Abort(s, "signup", "UnhandledError")

\* a login that tells the caller when no user has the username
login_names_unknown_user(s, method, username, password) ==
    IF g_user(s) # NoUser THEN TurnAway("AlreadySignedIn")
    ELSE IF ~validate_on_submit(method, LoginFormValid(username, password))
    THEN Refuse("login", FormResponse(method))
    ELSE IF UsersNamed(username) = {} THEN Refuse("login", "NoSuchUser")
    ELSE LET user == User_authenticate(username, password)
         IN IF user # NoUser
            THEN /\ session' = do_login(s, user)
                 /\ Respond("login", "OK")
                 /\ UNCHANGED <<store, nextUserId, nextMsgId, clock>>
            ELSE Refuse("login", "AuthenticationFailed")

\* a login without the `if g.user` guard: it signs in over the session
login_over_session(s, method, username, password) ==
    IF ~validate_on_submit(method, LoginFormValid(username, password))
    THEN Refuse("login", FormResponse(method))
    ELSE LET user == User_authenticate(username, password)
         IN IF user # NoUser
            THEN /\ session' = do_login(s, user)
                 /\ Respond("login", "OK")
                 /\ UNCHANGED <<store, nextUserId, nextMsgId, clock>>
            ELSE Refuse("login", "AuthenticationFailed")

\* login is one action: a request with a stored user in its cookie ends at
\* the load of g.user, and any other request reads the store once, in
\* User.authenticate (a cookie that named no user names none later either)
login(s, method, username, password) ==
    IF g_user(s) # NoUser THEN TurnAway("AlreadySignedIn")
    ELSE IF ~validate_on_submit(method, LoginFormValid(username, password))
    THEN Refuse("login", FormResponse(method))
    ELSE LET user == User_authenticate(username, password)
         IN IF user # NoUser
            THEN /\ session' = do_login(s, user)
                 /\ Respond("login", "OK")
                 /\ UNCHANGED <<store, nextUserId, nextMsgId, clock>>
            ELSE Refuse("login", "AuthenticationFailed")

\* logout reads the store once, in add_user_to_g
logout(s) ==
    IF g_user(s) = NoUser THEN TurnAway("Unauthenticated")
    ELSE /\ session' = do_logout(s)
         /\ Respond("logout", "OK")
         /\ UNCHANGED <<store, nextUserId, nextMsgId, clock>>

\* ------------------------------------------------------------ user routes
\* the page that ends the request of session s
Render(s, page) ==
    /\ response' = page
    /\ pending' = [pending EXCEPT ![s] = Idle]
    /\ UNCHANGED <<store, session, nextUserId, nextMsgId, clock>>

\* a page that needs a signed-in caller, up to its query: g.user is loaded
PageBegin(s, pc, user_id) ==
    /\ pending[s].pc = "idle"
    /\ IF g_user(s) = NoUser THEN TurnAway("Unauthenticated")
       ELSE Stash(s, [pc |-> pc, user |-> g_user(s), user_id |-> user_id])

show_following_begin(s, user_id) == PageBegin(s, "show_following_get", user_id)

\* user = User.query.get_or_404(user_id) and the page
show_following_get(s) ==
    /\ pending[s].pc = "show_following_get"
    /\ IF ~get_user(pending[s].user, pending[s].user_id) THEN Abort(s, "any", "NotFound")
       ELSE Abort(s, "show_following", "OK")

users_followers_begin(s, user_id) == PageBegin(s, "users_followers_get", user_id)

users_followers_get(s) ==
    /\ pending[s].pc = "users_followers_get"
    /\ IF ~get_user(pending[s].user, pending[s].user_id) THEN Abort(s, "any", "NotFound")
       ELSE Abort(s, "users_followers", "OK")

view_likes_begin(s, user_id) == PageBegin(s, "view_likes_get", user_id)

view_likes_get(s) ==
    /\ pending[s].pc = "view_likes_get"
    /\ IF ~get_user(pending[s].user, pending[s].user_id) THEN Abort(s, "any", "NotFound")
       ELSE Stash(s, [pc |-> "view_likes_likes", user_id |-> pending[s].user_id])

\* likes=user.likes: the collection is loaded for the page
view_likes_likes(s) ==
    /\ pending[s].pc = "view_likes_likes"
    /\ Render(s, [op |-> "view_likes", result |-> "OK", user |-> pending[s].user_id,
                  likes |-> user_likes(pending[s].user_id)])

\* an add_follow that appends the caller to the other user's following
following_append_reversed(u, followed, held) ==
    IF held THEN follows ELSE follows (+) Row(<<followed, u>>)

\* g.user.following.append(followed_user) and the flush: the unit of work
\* inserts a row only for a member that the loaded collection did not hold
following_append(u, followed, held) ==
    IF held THEN follows ELSE follows (+) Row(<<u, followed>>)

\* g.user.following.remove(followed_user) and the flush
following_remove(u, followed) == follows (-) Row(<<u, followed>>)

\* add_follow up to its query: g.user is loaded
add_follow_begin(s, follow_id) ==
    /\ pending[s].pc = "idle"
    /\ IF g_user(s) = NoUser THEN TurnAway("Unauthenticated")
       ELSE Stash(s, [pc |-> "add_follow_get", user |-> g_user(s), follow_id |-> follow_id])

\* followed_user = User.query.get_or_404(follow_id)
add_follow_get(s) ==
    /\ pending[s].pc = "add_follow_get"
    /\ IF ~get_user(pending[s].user, pending[s].follow_id) THEN Abort(s, "any", "NotFound")
       ELSE Stash(s, [pc |-> "add_follow_append", user |-> pending[s].user,
                      follow_id |-> pending[s].follow_id])

\* an add_follow that reports the repeated follow as a failure
add_follow_append_rejects_duplicate(s) ==
    /\ pending[s].pc = "add_follow_append"
    /\ IF pending[s].follow_id \in following(pending[s].user)
       THEN Abort(s, "add_follow", "Conflict")
       ELSE Stash(s, [pc |-> "add_follow_commit", user |-> pending[s].user,
                      follow_id |-> pending[s].follow_id, held |-> FALSE])

\* g.user.following.append(followed_user): the collection is loaded, and it
\* holds the followed user or not
add_follow_append(s) ==
    /\ pending[s].pc = "add_follow_append"
    /\ Stash(s, [pc |-> "add_follow_commit", user |-> pending[s].user,
                 follow_id |-> pending[s].follow_id,
                 held |-> pending[s].follow_id \in following(pending[s].user)])

\* a follows table without the key on the pair: the INSERT is refused only
\* when one of its users is gone
follow_insert_refused_no_key(u, followed) ==
    \/ u \notin DOMAIN users
    \/ followed \notin DOMAIN users

\* the INSERT of the edge (u, followed) is refused: one of its users is gone,
\* or the pair is stored already
follow_insert_refused(u, followed) ==
    \/ u \notin DOMAIN users
    \/ followed \notin DOMAIN users
    \/ <<u, followed>> \in BagToSet(follows)

\* db.session.commit() of add_follow; there is no except clause, so a refused
\* INSERT leaves the view function as an error
add_follow_commit(s) ==
    /\ pending[s].pc = "add_follow_commit"
    /\ LET u == pending[s].user
           followed == pending[s].follow_id
       IN IF ~pending[s].held /\ follow_insert_refused(u, followed)
          THEN Abort(s, "add_follow", "UnhandledError")
          ELSE /\ follows' = following_append(u, followed, pending[s].held)
               /\ Committed(s, [pc |-> "add_follow_redirect", user |-> u])
               /\ UNCHANGED <<users, messages, likes, session, nextUserId, nextMsgId, clock>>

\* redirect(f"/users/{g.user.id}/following") of add_follow
add_follow_redirect(s) ==
    /\ pending[s].pc = "add_follow_redirect"
    /\ Abort(s, "add_follow", Reloaded(pending[s].user))

\* stop_following up to its query: g.user is loaded
stop_following_begin(s, follow_id) ==
    /\ pending[s].pc = "idle"
    /\ IF g_user(s) = NoUser THEN TurnAway("Unauthenticated")
       ELSE Stash(s, [pc |-> "stop_following_load", user |-> g_user(s),
                      follow_id |-> follow_id])

\* a stop_following without the membership test: it goes on to the commit
\* whatever the caller follows
stop_following_load_silent(s) ==
    /\ pending[s].pc = "stop_following_load"
    /\ Stash(s, [pc |-> "stop_following_commit", user |-> pending[s].user,
                 follow_id |-> pending[s].follow_id])

\* following_ids = [user.id for user in g.user.following] and the test on it;
\* User.query.get(follow_id) then finds the user among the ones just loaded
stop_following_load(s) ==
    /\ pending[s].pc = "stop_following_load"
    /\ IF pending[s].follow_id \notin following(pending[s].user)
       THEN Abort(s, "stop_following", "NotFollowing")
       ELSE Stash(s, [pc |-> "stop_following_commit", user |-> pending[s].user,
                      follow_id |-> pending[s].follow_id])

\* what the session reports when a DELETE of one row of an association table
\* matches no row because another request has removed it: nothing, or an
\* error that no view function catches
DeleteOfNoRow == {"OK", "UnhandledError"}

\* db.session.commit() of stop_following: the DELETE of the edge
stop_following_commit(s) ==
    /\ pending[s].pc = "stop_following_commit"
    /\ LET u == pending[s].user
           followed == pending[s].follow_id
       IN /\ follows' = following_remove(u, followed)
          /\ UNCHANGED <<users, messages, likes, session, nextUserId, nextMsgId, clock>>
          /\ \E r \in (IF <<u, followed>> \in BagToSet(follows) THEN {"OK"} ELSE DeleteOfNoRow) :
                IF r = "OK"
                THEN Committed(s, [pc |-> "stop_following_redirect", user |-> u])
                ELSE Reply(s, "stop_following", r)

\* redirect(f"/users/{g.user.id}/following") of stop_following
stop_following_redirect(s) ==
    /\ pending[s].pc = "stop_following_redirect"
    /\ Abort(s, "stop_following", Reloaded(pending[s].user))

\* the assignments of profile() to g.user
profile_update(row, username, email, opt) ==
    [row EXCEPT !.username = username,
                !.email = email,
                !.image_url = OrDefault(opt.image_url, DefaultImage),
                !.header_image_url = OrDefault(opt.header_image_url, DefaultHeader),
                !.bio = OrDefault(opt.bio, NoText),
                !.location = OrDefault(opt.location, NoText)]

\* the UPDATE that the flush sends: it sets the columns whose value the
\* assignments have changed from the loaded one, in the row as it is stored
flush_update(stored, loaded, assigned) ==
    [c \in DOMAIN stored |-> IF assigned[c] # loaded[c] THEN assigned[c] ELSE stored[c]]

\* profile() up to User.confirm_password: g.user is loaded and the form is
\* checked
profile_begin(s, method, username, email, password, opt) ==
    /\ pending[s].pc = "idle"
    /\ IF g_user(s) = NoUser THEN TurnAway("Unauthenticated")
       ELSE IF ~validate_on_submit(method, EditProfileFormValid(username, email, password))
       THEN Refuse("profile", FormResponse(method))
       ELSE Stash(s, [pc |-> "profile_confirm", user |-> g_user(s), row |-> users[g_user(s)],
                      username |-> username, email |-> email, password |-> password,
                      opt |-> opt])

\* the request of profile() that goes on to the commit
profile_assigned(request) ==
    [pc |-> "profile_commit", user |-> request.user, row |-> request.row,
     assigned |-> profile_update(request.row, request.username, request.email, request.opt)]

\* what User.confirm_password answers for an id whose row is gone: it checks
\* the password on the object that the session still holds, answers False,
\* or fails
ConfirmOfNoRow == {"Loaded", "WrongPassword", "UnhandledError"}

\* a profile() that skips User.confirm_password
profile_confirm_unconfirmed(s) ==
    /\ pending[s].pc = "profile_confirm"
    /\ Stash(s, profile_assigned(pending[s]))

\* User.confirm_password(session[CURR_USER_KEY], form.password.data) and the
\* assignments to g.user
profile_confirm(s) ==
    /\ pending[s].pc = "profile_confirm"
    /\ IF pending[s].user \in DOMAIN users
       THEN IF User_confirm_password(pending[s].user, pending[s].password)
            THEN Stash(s, profile_assigned(pending[s]))
            ELSE Abort(s, "profile", "WrongPassword")
       ELSE \E answer \in ConfirmOfNoRow :
                IF answer = "Loaded"
                THEN IF check_password_hash(pending[s].row.password, pending[s].password)
                     THEN Stash(s, profile_assigned(pending[s]))
                     ELSE Abort(s, "profile", "WrongPassword")
                ELSE Abort(s, "profile", answer)

\* a commit of profile() that inserts a new row: the caller's own username
\* and email clash with the row they come from
profile_commit_own_row_conflicts(s) ==
    /\ pending[s].pc = "profile_commit"
    /\ LET u == pending[s].user
       IN IF u \notin DOMAIN users
          THEN Abort(s, "profile", "UnhandledError")
          ELSE IF UniqueViolation(users, NoUser, pending[s].assigned.username,
                                  pending[s].assigned.email)
          THEN Abort(s, "profile", "Conflict")
          ELSE /\ users' = [users EXCEPT ![u] = flush_update(@, pending[s].row, pending[s].assigned)]
               /\ Reply(s, "profile", "OK")
               /\ UNCHANGED <<messages, follows, likes, session, nextUserId, nextMsgId, clock>>

\* db.session.commit() of profile(): the UPDATE of the caller's row, which is
\* not sent when the assignments have changed nothing. When the row is gone
\* the UPDATE matches nothing, which the session raises as an error that
\* `except IntegrityError` does not catch; a clash with another row is the
\* IntegrityError that it does catch.
profile_commit(s) ==
    /\ pending[s].pc = "profile_commit"
    /\ LET u == pending[s].user
       IN IF pending[s].assigned = pending[s].row
          THEN Abort(s, "profile", "OK")
          ELSE IF u \notin DOMAIN users
          THEN Abort(s, "profile", "UnhandledError")
          ELSE LET row == flush_update(users[u], pending[s].row, pending[s].assigned)
               IN IF UniqueViolation(users, u, row.username, row.email)
                  THEN Abort(s, "profile", "Conflict")
                  ELSE /\ users' = [users EXCEPT ![u] = row]
                       /\ Reply(s, "profile", "OK")
                       /\ UNCHANGED <<messages, follows, likes, session, nextUserId,
                                      nextMsgId, clock>>

\* db.session.delete(user) and the commit: the cascades of the storage layer
deleted_messages(u) == user_messages(u)
cascade_messages(u) == Without(messages, deleted_messages(u))
KeepFollow(u, r) == r[1] # u /\ r[2] # u
cascade_follows(u) == Restrict(follows, {r \in BagToSet(follows) : KeepFollow(u, r)})
KeepLike(u, r) == r[1] # u /\ r[2] \notin deleted_messages(u)
cascade_likes(u) == Restrict(likes, {r \in BagToSet(likes) : KeepLike(u, r)})

\* a delete_user that forgets do_logout()
delete_user_session_kept(s) == session

\* the session of the caller after delete_user: do_logout()
delete_user_session(s) == do_logout(s)

\* delete_user up to the delete: g.user is loaded
delete_user_begin(s) ==
    /\ pending[s].pc = "idle"
    /\ IF g_user(s) = NoUser THEN TurnAway("Unauthenticated")
       ELSE Stash(s, [pc |-> "delete_user_commit", user |-> g_user(s)])

\* a delete_user that logs out and never deletes the row
delete_user_commit_not_deleted(s) ==
    /\ pending[s].pc = "delete_user_commit"
    /\ session' = delete_user_session(s)
    /\ Reply(s, "delete_user", "OK")
    /\ UNCHANGED <<store, nextUserId, nextMsgId, clock>>

\* do_logout(), db.session.delete(g.user) and the commit; a DELETE that finds
\* the row gone already is a warning and the request goes on
delete_user_commit(s) ==
    /\ pending[s].pc = "delete_user_commit"
    /\ LET u == pending[s].user
       IN /\ session' = delete_user_session(s)
          /\ users' = Without(users, {u})
          /\ messages' = cascade_messages(u)
          /\ follows' = cascade_follows(u)
          /\ likes' = cascade_likes(u)
          /\ Reply(s, "delete_user", "OK")
          /\ UNCHANGED <<nextUserId, nextMsgId, clock>>

\* --------------------------------------------------------- message routes
\* createMessage of the storage layer refuses the text
Message_text_refused(text) == text = "" \/ Len(text) > MaxTextLen

\* messages_add up to the commit: g.user is loaded, the form is checked and
\* the new Message is appended to g.user.messages (the load of that
\* collection feeds nothing but the append)
messages_add_begin(s, method, text) ==
    /\ pending[s].pc = "idle"
    /\ IF g_user(s) = NoUser THEN TurnAway("Unauthenticated")
       ELSE IF ~validate_on_submit(method, MessageFormValid(text))
       THEN Refuse("messages_add", FormResponse(method))
       ELSE Stash(s, [pc |-> "messages_add_commit", user |-> g_user(s), text |-> text])

\* a messages_add that adds the message to the session without appending it
\* to g.user.messages
messages_add_commit_orphan(s, now) ==
    /\ pending[s].pc = "messages_add_commit"
    /\ IF Message_text_refused(pending[s].text) \/ pending[s].user \notin DOMAIN users
       THEN Abort(s, "messages_add", "UnhandledError")
       ELSE /\ now \in {clock, clock + 1}
            /\ messages' = messages @@ (nextMsgId :>
                    [text |-> pending[s].text, timestamp |-> now, user_id |-> NoUser])
            /\ nextMsgId' = nextMsgId + 1
            /\ clock' = now
            /\ Committed(s, [pc |-> "messages_add_redirect", user |-> pending[s].user])
            /\ UNCHANGED <<users, follows, likes, session, nextUserId>>

\* db.session.commit() of messages_add: the INSERT, stamped with the time of
\* the server. A text that the storage layer refuses, or an owner whose row
\* is gone, is an exception that leaves the view function.
messages_add_commit(s, now) ==
    /\ pending[s].pc = "messages_add_commit"
    /\ IF Message_text_refused(pending[s].text) \/ pending[s].user \notin DOMAIN users
       THEN Abort(s, "messages_add", "UnhandledError")
       ELSE /\ now \in {clock, clock + 1}
            /\ messages' = messages @@ (nextMsgId :>
                    [text |-> pending[s].text, timestamp |-> now, user_id |-> pending[s].user])
            /\ nextMsgId' = nextMsgId + 1
            /\ clock' = now
            /\ Committed(s, [pc |-> "messages_add_redirect", user |-> pending[s].user])
            /\ UNCHANGED <<users, follows, likes, session, nextUserId>>

\* redirect(f"/users/{g.user.id}") of messages_add
messages_add_redirect(s) ==
    /\ pending[s].pc = "messages_add_redirect"
    /\ Abort(s, "messages_add", Reloaded(pending[s].user))

\* an ownership test that compares the id of the message with the session
is_own_warble_by_message_id(s, message_id) == message_id = session[s]

\* msg.user_id == session[CURR_USER_KEY]
is_own_warble(s, message_id) == messages[message_id].user_id = session[s]

\* toggle_like on the likes table lk, with the flush:
\* g.user.likes = [like for like in g.user.likes if like != msg]
likes_without(lk, u, message_id) == Restrict(lk, BagToSet(lk) \ {<<u, message_id>>})
\* g.user.likes.append(msg)
likes_append(lk, u, message_id) == lk (+) Row(<<u, message_id>>)
\* a toggle_like whose membership test never finds the message
toggled_always_append(lk, u, message_id, liked) == likes_append(lk, u, message_id)

\* if msg in g.user.likes: ... else: ..., with `liked` the outcome of the test
toggled(lk, u, message_id, liked) ==
    IF liked
    THEN likes_without(lk, u, message_id)
    ELSE likes_append(lk, u, message_id)

\* toggle_like up to its query: g.user is loaded
toggle_like_begin(s, message_id) ==
    /\ pending[s].pc = "idle"
    /\ IF g_user(s) = NoUser THEN TurnAway("Unauthenticated")
       ELSE Stash(s, [pc |-> "toggle_like_get", user |-> g_user(s),
                      message_id |-> message_id])

\* msg = Message.query.get_or_404(message_id) and the test of its owner
toggle_like_get(s) ==
    /\ pending[s].pc = "toggle_like_get"
    /\ IF pending[s].message_id \notin DOMAIN messages THEN Abort(s, "any", "NotFound")
       ELSE IF is_own_warble(s, pending[s].message_id) THEN Abort(s, "toggle_like", "Forbidden")
       ELSE Stash(s, [pc |-> "toggle_like_likes", user |-> pending[s].user,
                      message_id |-> pending[s].message_id])

\* `if msg in g.user.likes`: the collection is loaded and the branch is taken
toggle_like_likes(s) ==
    /\ pending[s].pc = "toggle_like_likes"
    /\ Stash(s, [pc |-> "toggle_like_commit", user |-> pending[s].user,
                 message_id |-> pending[s].message_id,
                 liked |-> pending[s].message_id \in user_likes(pending[s].user)])

\* the INSERT of the edge (u, message_id) is refused: its user or its message
\* is gone, or the pair is stored already
like_insert_refused(u, message_id) ==
    \/ u \notin DOMAIN users
    \/ message_id \notin DOMAIN messages
    \/ <<u, message_id>> \in BagToSet(likes)

\* db.session.commit() of toggle_like, with the branch taken at the read.
\* Unlike: the DELETE of the edge, which matches no row when another request
\* has removed it. Like: the INSERT of the edge; toggle_like has no except
\* clause, so a refused INSERT leaves the view function as an error.
toggle_like_commit(s) ==
    /\ pending[s].pc = "toggle_like_commit"
    /\ LET u == pending[s].user
           m == pending[s].message_id
           present == <<u, m>> \in BagToSet(likes)
       IN /\ UNCHANGED <<users, messages, follows, session, nextUserId, nextMsgId, clock>>
          /\ IF pending[s].liked
             THEN /\ likes' = toggled(likes, u, m, TRUE)
                  /\ \E r \in (IF present THEN {"OK"} ELSE DeleteOfNoRow) :
                        Reply(s, "toggle_like", r)
             ELSE IF like_insert_refused(u, m)
                  THEN likes' = likes /\ Reply(s, "toggle_like", "UnhandledError")
                  ELSE likes' = toggled(likes, u, m, FALSE) /\ Reply(s, "toggle_like", "OK")

\* an ownership test that lets every signed-in user through
is_not_owner_never(s, owner) == FALSE

\* msg.user.id != session[CURR_USER_KEY]
is_not_owner(s, owner) == owner # session[s]

\* db.session.delete(msg) and the commit: the likes of the message go with it
KeepLikeOf(message_id, r) == r[2] # message_id
cascade_message_likes(message_id) ==
    Restrict(likes, {r \in BagToSet(likes) : KeepLikeOf(message_id, r)})

\* a messages_destroy without the sign-in and ownership checks
messages_destroy_unchecked(s, message_id) ==
    /\ pending[s].pc = "idle"
    /\ Stash(s, [pc |-> "messages_destroy_commit", user |-> g_user(s),
                 message_id |-> message_id])

\* messages_destroy up to its query: g.user is loaded
messages_destroy_begin(s, message_id) ==
    /\ pending[s].pc = "idle"
    /\ IF g_user(s) = NoUser THEN TurnAway("Unauthenticated")
       ELSE Stash(s, [pc |-> "messages_destroy_get", user |-> g_user(s),
                      message_id |-> message_id])

\* msg = Message.query.get_or_404(message_id)
messages_destroy_get(s) ==
    /\ pending[s].pc = "messages_destroy_get"
    /\ IF pending[s].message_id \notin DOMAIN messages THEN Abort(s, "any", "NotFound")
       ELSE Stash(s, [pc |-> "messages_destroy_owner", user |-> pending[s].user,
                      message_id |-> pending[s].message_id,
                      owner |-> messages[pending[s].message_id].user_id])

\* `if msg.user.id != session[CURR_USER_KEY]`: msg.user is g.user, which the
\* session holds, or it is read from the users table, and when the row is
\* gone msg.user is None and the test fails with an error
messages_destroy_owner(s) ==
    /\ pending[s].pc = "messages_destroy_owner"
    /\ IF ~get_user(pending[s].user, pending[s].owner)
       THEN Abort(s, "messages_destroy", "UnhandledError")
       ELSE IF is_not_owner(s, pending[s].owner)
       THEN Abort(s, "messages_destroy", "Forbidden")
       ELSE Stash(s, [pc |-> "messages_destroy_commit", user |-> pending[s].user,
                      message_id |-> pending[s].message_id])

\* a messages_destroy whose delete leaves the likes table alone
messages_destroy_commit_keeps_likes(s) ==
    /\ pending[s].pc = "messages_destroy_commit"
    /\ messages' = Without(messages, {pending[s].message_id})
    /\ Committed(s, [pc |-> "messages_destroy_redirect", user |-> pending[s].user])
    /\ UNCHANGED <<users, follows, likes, session, nextUserId, nextMsgId, clock>>

\* db.session.delete(msg) and the commit; a DELETE that finds the row gone
\* already is a warning and the request goes on
messages_destroy_commit(s) ==
    /\ pending[s].pc = "messages_destroy_commit"
    /\ messages' = Without(messages, {pending[s].message_id})
    /\ likes' = cascade_message_likes(pending[s].message_id)
    /\ Committed(s, [pc |-> "messages_destroy_redirect", user |-> pending[s].user])
    /\ UNCHANGED <<users, follows, session, nextUserId, nextMsgId, clock>>

\* redirect(f"/users/{g.user.id}") of messages_destroy
messages_destroy_redirect(s) ==
    /\ pending[s].pc = "messages_destroy_redirect"
    /\ Abort(s, "messages_destroy", Reloaded(pending[s].user))

\* ------------------------------------------------------------ message pages
\* the rows a query limits its result to
FeedLimit == 100

Min(a, b) == IF a < b THEN a ELSE b
\* the sequences that list every message of the set ms once
RECURSIVE Listings(_)
Listings(ms) ==
    IF ms = {} THEN {<<>>}
    ELSE UNION {{<<m>> \o q : q \in Listings(ms \ {m})} : m \in ms}
\* the listings of the messages of ms that are stamped t or earlier, the
\* later ones first
RECURSIVE stamped_until(_, _)
stamped_until(ms, t) ==
    IF t = 0 THEN {<<>>}
    ELSE {p \o q : p \in Listings({m \in ms : messages[m].timestamp = t}),
                   q \in stamped_until(ms, t - 1)}
\* .order_by(Message.timestamp.desc()): rows of equal timestamp come back in
\* whatever order the database produces them
order_by_timestamp_desc(ms) == stamped_until(ms, clock)
\* .limit(n)
limit(q, n) == SubSeq(q, 1, Min(n, Len(q)))
\* Message.query.filter(...).order_by(Message.timestamp.desc()).limit(n).all()
recent_messages(ms, n) == {limit(q, n) : q \in order_by_timestamp_desc(ms)}

\* a home page that lists the messages of the caller's followers
matching_user_ids_followers(u) == followers(u) \cup {u}

\* [user.id for user in g.user.following] + [g.user.id]
matching_user_ids(u) == following(u) \cup {u}
\* .filter(Message.user_id.in_(matching_user_ids))
messages_of(ids) == {m \in DOMAIN messages : messages[m].user_id \in ids}

\* homepage up to its first query: g.user is loaded
homepage_begin(s) ==
    /\ pending[s].pc = "idle"
    /\ IF g_user(s) = NoUser THEN Refuse("homepage", "Anonymous")
       ELSE Stash(s, [pc |-> "homepage_following", user |-> g_user(s)])

\* matching_user_ids: g.user.following is loaded
homepage_following(s) ==
    /\ pending[s].pc = "homepage_following"
    /\ Stash(s, [pc |-> "homepage_messages", user |-> pending[s].user,
                 ids |-> matching_user_ids(pending[s].user)])

\* the query of the messages
homepage_messages(s) ==
    /\ pending[s].pc = "homepage_messages"
    /\ \E page \in recent_messages(messages_of(pending[s].ids), FeedLimit) :
            Stash(s, [pc |-> "homepage_likes", user |-> pending[s].user, page |-> page])

\* likes=g.user.likes: the collection is loaded for the page
homepage_likes(s) ==
    /\ pending[s].pc = "homepage_likes"
    /\ Render(s, [op |-> "homepage", result |-> "OK", user |-> pending[s].user,
                  messages |-> pending[s].page, likes |-> user_likes(pending[s].user)])

\* user = User.query.get_or_404(user_id); the page needs no signed-in caller,
\* and the load of g.user before it feeds nothing in the view function
users_show_begin(s, user_id) ==
    /\ pending[s].pc = "idle"
    /\ IF user_id \notin DOMAIN users THEN TurnAway("NotFound")
       ELSE Stash(s, [pc |-> "users_show_messages", user_id |-> user_id])

\* the query of the messages
users_show_messages(s) ==
    /\ pending[s].pc = "users_show_messages"
    /\ \E page \in recent_messages(messages_of({pending[s].user_id}), FeedLimit) :
            Stash(s, [pc |-> "users_show_likes", user_id |-> pending[s].user_id,
                      page |-> page])

\* likes=user.likes: the collection is loaded for the page
users_show_likes(s) ==
    /\ pending[s].pc = "users_show_likes"
    /\ Render(s, [op |-> "users_show", result |-> "OK", user |-> pending[s].user_id,
                  messages |-> pending[s].page, likes |-> user_likes(pending[s].user_id)])

\* ------------------------------------------------------- specifications
\* the browser of the specifications in which one client talks to the application
Browser == {1}

\* users.id and messages.id stay within the bounds: a request that will ask
\* for a new id starts while one is left for it
UserIdLeft == nextUserId + InFlight("signup_commit") <= MaxUserId
MsgIdLeft(max) == nextMsgId + InFlight("messages_add_commit") <= max
\* the clock of the server stays within its bound
ClockLeft(now) == now <= MaxClock

\* Account handlers, every combination of form inputs, from one browser that
\* sends its requests one after the other.
NextAccounts ==
    \/ \E s \in Browser, method \in Methods, username \in Usernames, email \in Emails,
          password \in Passwords, opt \in Blank, salt \in Salts :
            UserIdLeft /\ signup_begin(s, method, username, email, password, opt, salt)
    \/ \E s \in Browser : signup_commit(s)
    \/ \E s \in Browser : signup_login(s)
    \/ \E s \in Browser \cap Free, method \in Methods, username \in Usernames, password \in Passwords :
            login(s, method, username, password)
    \/ \E s \in Browser \cap Free : logout(s)
    \/ \E s \in Browser, method \in Methods, username \in Usernames, email \in Emails,
          password \in Passwords, opt \in Optionals :
            profile_begin(s, method, username, email, password, opt)
    \/ \E s \in Browser : profile_confirm(s)
    \/ \E s \in Browser : profile_commit(s)
    \/ \E s \in Browser : delete_user_begin(s)
    \/ \E s \in Browser : delete_user_commit(s)

SpecAccounts == Init /\ [][NextAccounts]_vars

\* The handlers that change the store, from one browser that sends its
\* requests one after the other, with the form payloads of two people (the
\* profile form carries one person's payload whole; NextAccounts has every
\* combination of its fields).
People == {[username |-> "alice", email |-> "alice@x.com", password |-> "secret1"],
           [username |-> "bob", email |-> "bob@x.com", password |-> "secret2"]}

Next ==
    \/ \E s \in Browser, method \in Methods, p \in People, opt \in Blank, salt \in Salts :
            UserIdLeft /\ signup_begin(s, method, p.username, p.email, p.password, opt, salt)
    \/ \E s \in Browser : signup_commit(s)
    \/ \E s \in Browser : signup_login(s)
    \/ \E s \in Browser \cap Free, method \in Methods, p \in People, q \in People :
            login(s, method, p.username, q.password)
    \/ \E s \in Browser \cap Free : logout(s)
    \/ \E s \in Browser, follow_id \in UserIds : add_follow_begin(s, follow_id)
    \/ \E s \in Browser : add_follow_get(s)
    \/ \E s \in Browser : add_follow_append(s)
    \/ \E s \in Browser : add_follow_commit(s)
    \/ \E s \in Browser : add_follow_redirect(s)
    \/ \E s \in Browser, follow_id \in UserIds : stop_following_begin(s, follow_id)
    \/ \E s \in Browser : stop_following_load(s)
    \/ \E s \in Browser : stop_following_commit(s)
    \/ \E s \in Browser : stop_following_redirect(s)
    \/ \E s \in Browser, method \in Methods, p \in People, opt \in Blank :
            profile_begin(s, method, p.username, p.email, p.password, opt)
    \/ \E s \in Browser : profile_confirm(s)
    \/ \E s \in Browser : profile_commit(s)
    \/ \E s \in Browser : delete_user_begin(s)
    \/ \E s \in Browser : delete_user_commit(s)
    \/ \E s \in Browser, method \in Methods, text \in Texts :
            MsgIdLeft(MaxMsgId) /\ messages_add_begin(s, method, text)
    \/ \E s \in Browser : messages_add_commit(s, clock)
    \/ \E s \in Browser : messages_add_redirect(s)
    \/ \E s \in Browser, message_id \in MsgIds : toggle_like_begin(s, message_id)
    \/ \E s \in Browser : toggle_like_get(s)
    \/ \E s \in Browser : toggle_like_likes(s)
    \/ \E s \in Browser : toggle_like_commit(s)
    \/ \E s \in Browser, message_id \in MsgIds : messages_destroy_begin(s, message_id)
    \/ \E s \in Browser : messages_destroy_get(s)
    \/ \E s \in Browser : messages_destroy_owner(s)
    \/ \E s \in Browser : messages_destroy_commit(s)
    \/ \E s \in Browser : messages_destroy_redirect(s)

Spec == Init /\ [][Next]_vars

\* The store that setUp of the view tests leaves, cut to its first two users:
\* the users that User.signup has added, no message, no follow and no like,
\* and the test client without a session.
TabUsers == {1, 2}
TabMsgIds == {1, 2}
TestUser(u) ==
    User_signup("user" \o ToString(u), "user" \o ToString(u) \o "@test.com",
                "HASHED_PASSWORD" \o ToString(u), "www.testurl" \o ToString(u) \o ".com",
                CHOOSE salt \in Salts : TRUE)
TabPeople ==
    {[username |-> "user" \o ToString(u), email |-> "user" \o ToString(u) \o "@test.com",
      password |-> "HASHED_PASSWORD" \o ToString(u)] : u \in TabUsers}

InitTabs ==
    /\ pending = [s \in Sessions |-> Idle]
    /\ users = [u \in TabUsers |-> TestUser(u)]
    /\ messages = <<>>
    /\ follows = EmptyBag
    /\ likes = EmptyBag
    /\ session = [s \in Sessions |-> NoUser]
    /\ nextUserId = 3
    /\ nextMsgId = 1
    /\ clock = 1
    /\ response = [op |-> "none", result |-> "None"]

\* The pages, from one browser over the users of the fixture: they sign in,
\* post, follow and look at the home page and at the pages of users.
NextMessages ==
    \/ \E s \in Browser \cap Free, p \in TabPeople : login(s, "POST", p.username, p.password)
    \/ \E s \in Browser \cap Free : logout(s)
    \/ \E s \in Browser : homepage_begin(s)
    \/ \E s \in Browser : homepage_following(s)
    \/ \E s \in Browser : homepage_messages(s)
    \/ \E s \in Browser : homepage_likes(s)
    \/ \E s \in Browser, user_id \in TabUsers : users_show_begin(s, user_id)
    \/ \E s \in Browser : users_show_messages(s)
    \/ \E s \in Browser : users_show_likes(s)
    \/ \E s \in Browser, user_id \in TabUsers : show_following_begin(s, user_id)
    \/ \E s \in Browser : show_following_get(s)
    \/ \E s \in Browser, user_id \in TabUsers : users_followers_begin(s, user_id)
    \/ \E s \in Browser : users_followers_get(s)
    \/ \E s \in Browser, user_id \in TabUsers : view_likes_begin(s, user_id)
    \/ \E s \in Browser : view_likes_get(s)
    \/ \E s \in Browser : view_likes_likes(s)
    \/ \E s \in Browser, follow_id \in TabUsers : add_follow_begin(s, follow_id)
    \/ \E s \in Browser : add_follow_get(s)
    \/ \E s \in Browser : add_follow_append(s)
    \/ \E s \in Browser : add_follow_commit(s)
    \/ \E s \in Browser : add_follow_redirect(s)
    \/ \E s \in Browser, text \in AllTexts :
            MsgIdLeft(MaxPosted) /\ messages_add_begin(s, "POST", text)
    \/ \E s \in Browser, now \in {clock, clock + 1} :
            ClockLeft(now) /\ messages_add_commit(s, now)
    \/ \E s \in Browser : messages_add_redirect(s)

SpecMessages == InitTabs /\ [][NextMessages]_vars

\* The home page over a long run of messages, from one browser over the users
\* of the fixture: they sign in and out, follow and stop following each other,
\* post and look at the home page. The first and the last message are
\* anybody's and the ones between them are those of user1; the second message
\* may share the time stamp of the first, and every later one has its own.
FeedAuthor == 1
NextFeed ==
    \/ \E s \in Browser \cap Free, p \in TabPeople : login(s, "POST", p.username, p.password)
    \/ \E s \in Browser \cap Free : logout(s)
    \/ \E s \in Browser : \E follow_id \in TabUsers \ {g_user(s)} : add_follow_begin(s, follow_id)
    \/ \E s \in Browser : add_follow_get(s)
    \/ \E s \in Browser : add_follow_append(s)
    \/ \E s \in Browser : add_follow_commit(s)
    \/ \E s \in Browser : add_follow_redirect(s)
    \/ \E s \in Browser : \E follow_id \in TabUsers \ {g_user(s)} : stop_following_begin(s, follow_id)
    \/ \E s \in Browser : stop_following_load(s)
    \/ \E s \in Browser : stop_following_commit(s)
    \/ \E s \in Browser : stop_following_redirect(s)
    \/ \E s \in Browser :
            /\ MsgIdLeft(MaxFeed)
            /\ nextMsgId \in {1, MaxFeed} \/ g_user(s) = FeedAuthor
            /\ messages_add_begin(s, "POST", "hello")
    \/ \E s \in Browser, now \in {clock, clock + 1} :
            /\ nextMsgId # 2 => now = clock + 1
            /\ messages_add_commit(s, now)
    \/ \E s \in Browser : messages_add_redirect(s)
    \/ \E s \in Browser : homepage_begin(s)
    \/ \E s \in Browser : homepage_following(s)
    \/ \E s \in Browser : homepage_messages(s)
    \/ \E s \in Browser : homepage_likes(s)

SpecFeed == InitTabs /\ [][NextFeed]_vars

\* the requests that session s can start and that need a signed-in caller:
\* the routes of app.py that begin with `if not g.user`
TabGated(s) ==
    \/ logout(s)
    \/ delete_user_begin(s)
    \/ \E id \in UserIds :
        \/ show_following_begin(s, id) \/ users_followers_begin(s, id) \/ view_likes_begin(s, id)
        \/ add_follow_begin(s, id) \/ stop_following_begin(s, id)
    \/ \E m \in TabMsgIds : toggle_like_begin(s, m) \/ messages_destroy_begin(s, m)
    \/ \E method \in Methods, text \in Texts : messages_add_begin(s, method, text)
    \/ \E method \in Methods, p \in TabPeople, q \in TabPeople, opt \in Blank :
        profile_begin(s, method, p.username, p.email, q.password, opt)

\* Two browsers over the fixture, their round trips interleaved: they sign
\* in and out, post, like, delete messages and delete accounts.
NextTabs ==
    \/ \E s \in Free, p \in TabPeople, q \in TabPeople :
            login(s, "POST", p.username, q.password)
    \/ \E s \in Free : logout(s)
    \/ \E s \in Sessions : delete_user_begin(s)
    \/ \E s \in Sessions : delete_user_commit(s)
    \/ \E s \in Sessions : MsgIdLeft(Cardinality(TabMsgIds)) /\ messages_add_begin(s, "POST", "hello")
    \/ \E s \in Sessions : messages_add_commit(s, clock)
    \/ \E s \in Sessions : messages_add_redirect(s)
    \/ \E s \in Sessions, m \in TabMsgIds : toggle_like_begin(s, m)
    \/ \E s \in Sessions : toggle_like_get(s)
    \/ \E s \in Sessions : toggle_like_likes(s)
    \/ \E s \in Sessions : toggle_like_commit(s)
    \/ \E s \in Sessions, m \in TabMsgIds : messages_destroy_begin(s, m)
    \/ \E s \in Sessions : messages_destroy_get(s)
    \/ \E s \in Sessions : messages_destroy_owner(s)
    \/ \E s \in Sessions : messages_destroy_commit(s)
    \/ \E s \in Sessions : messages_destroy_redirect(s)

SpecTabs == InitTabs /\ [][NextTabs]_vars

\* Two browsers that sign up, sign in and out and delete their accounts,
\* their round trips interleaved.
NextSignups ==
    \/ \E s \in Sessions, method \in Methods, p \in People, q \in People,
          opt \in Blank, salt \in Salts :
            UserIdLeft /\ signup_begin(s, method, p.username, q.email, p.password, opt, salt)
    \/ \E s \in Sessions : signup_commit(s)
    \/ \E s \in Sessions : signup_login(s)
    \/ \E s \in Free, p \in People : login(s, "POST", p.username, p.password)
    \/ \E s \in Free : logout(s)
    \/ \E s \in Sessions : delete_user_begin(s)
    \/ \E s \in Sessions : delete_user_commit(s)

SpecSignups == Init /\ [][NextSignups]_vars

\* Two browsers over the fixture, their round trips interleaved: they sign
\* in and out, post, like, follow and stop following.
NextConcurrent ==
    \/ \E s \in Free, p \in TabPeople : login(s, "POST", p.username, p.password)
    \/ \E s \in Free : logout(s)
    \/ \E s \in Sessions : MsgIdLeft(MaxMsgId) /\ messages_add_begin(s, "POST", "hello")
    \/ \E s \in Sessions : messages_add_commit(s, clock)
    \/ \E s \in Sessions : messages_add_redirect(s)
    \/ \E s \in Sessions, m \in MsgIds : toggle_like_begin(s, m)
    \/ \E s \in Sessions : toggle_like_get(s)
    \/ \E s \in Sessions : toggle_like_likes(s)
    \/ \E s \in Sessions : toggle_like_commit(s)
    \/ \E s \in Sessions, id \in TabUsers : add_follow_begin(s, id)
    \/ \E s \in Sessions : add_follow_get(s)
    \/ \E s \in Sessions : add_follow_append(s)
    \/ \E s \in Sessions : add_follow_commit(s)
    \/ \E s \in Sessions : add_follow_redirect(s)
    \/ \E s \in Sessions, id \in TabUsers : stop_following_begin(s, id)
    \/ \E s \in Sessions : stop_following_load(s)
    \/ \E s \in Sessions : stop_following_commit(s)
    \/ \E s \in Sessions : stop_following_redirect(s)

SpecConcurrent == InitTabs /\ [][NextConcurrent]_vars

\* ------------------------------------------------------------------ claims
Result == response.result
Op == response.op
\* the request of session s has run up to the round trip `pc`
At(s, pc) == pending[s].pc = pc
\* the request of session s has ended with this step
Ended(s) == pending'[s] = Idle
\* some stored user already has this username or this email
Taken(username, email) ==
    \E u \in DOMAIN users : users[u].username = username \/ users[u].email = email

\* the submissions that pass UserAddForm
C1_ValidForms ==
    {f \in [username : Usernames, email : Emails, password : Passwords] :
        UserAddFormValid(f.username, f.email, f.password)}

\* the request that a valid signup of session s leaves for its commit
C1_Stashed(s, f, opt, salt) ==
    [pending EXCEPT ![s] = [pc |-> "signup_commit",
                            row |-> signup_user(f.username, f.email, f.password, opt, salt)]]

\* a valid signup of an anonymous session goes on to its commit with the row
\* of the form, and with the users table and the sessions as they were
C1_ReachesCommit ==
    \A s \in Free : g_user(s) = NoUser =>
        \A f \in C1_ValidForms, opt \in Blank, salt \in Salts :
            /\ ENABLED signup_begin(s, "POST", f.username, f.email, f.password, opt, salt)
            /\ ~ENABLED (/\ signup_begin(s, "POST", f.username, f.email, f.password, opt, salt)
                         /\ \/ pending' # C1_Stashed(s, f, opt, salt)
                            \/ users' # users
                            \/ session' # session)

\* the commit of a signup whose username or email is taken
C1_Step ==
    \A s \in Sessions :
        (signup_commit(s) /\ Taken(pending[s].row.username, pending[s].row.email)) =>
            /\ g_user(s) = NoUser
            /\ Op' = "signup" /\ Result' = "Conflict"
            /\ users' = users
            /\ session' = session
            /\ g_user(s)' = NoUser

\* C1: a valid signup submitted from an anonymous session with a username or
\* an email that a stored user already has is answered with Conflict, leaves
\* the users table as it was and leaves the caller's session anonymous.
C1_SignupConflict == []C1_ReachesCommit /\ [][C1_Step]_vars

\* a signup was refused with Conflict while a user is stored and nobody is signed in
C1_Witness ==
    /\ Op = "signup" /\ Result = "Conflict"
    /\ DOMAIN users # {}
    /\ \A s \in Sessions : session[s] = NoUser

\* C2: no two distinct stored users share a username and no two distinct
\* stored users share an email, whatever signups, profile edits and account
\* deletions have happened.
C2_UniqueUsers ==
    \A a \in DOMAIN users, b \in DOMAIN users :
        a # b => users[a].username # users[b].username /\ users[a].email # users[b].email

\* two users are stored and a profile edit towards the other one's name was refused
C2_Witness ==
    /\ Cardinality(DOMAIN users) = 2
    /\ Op = "profile" /\ Result = "Conflict"

\* C3: right after a successful signup with username n and password p,
\* authenticate(n, p) returns the new user, authenticate(n, q) fails for every
\* other password q, and authenticate(m, p) fails for every username m that
\* no stored user has.
C3_SignupThenAuthenticate ==
    [][\A s \in Sessions :
        \* the commit of a signup that meets no clash stores the row of the form
        /\ (signup_commit(s) /\ ~Taken(pending[s].row.username, pending[s].row.email)) =>
            /\ pending'[s] = [pc |-> "signup_login", user |-> nextUserId]
            /\ users' = users @@ (nextUserId :> pending[s].row)
        \* and the signup that ends with OK leaves a user who authenticates
        /\ (signup_login(s) /\ Result' = "OK") =>
            /\ Op' = "signup" /\ Ended(s)
            /\ session'[s] = pending[s].user
            /\ \A username \in Usernames, email \in Emails, password \in Passwords,
                  opt \in Blank, salt \in Salts :
                users[pending[s].user] = signup_user(username, email, password, opt, salt)
                => /\ User_authenticate(username, password)' = pending[s].user
                   /\ \A q \in Passwords \ {password} :
                        User_authenticate(username, q)' = NoUser
                   /\ \A m \in Usernames :
                        (\A u \in DOMAIN users' : users'[u].username # m)
                        => User_authenticate(m, password)' = NoUser]_vars

\* a second user has just signed up, with a password different from the first user's
C3_Witness ==
    /\ Op = "signup" /\ Result = "OK"
    /\ Cardinality(DOMAIN users) = 2
    /\ \E a \in DOMAIN users, b \in DOMAIN users : users[a].password # users[b].password

\* one toggle_like of the edge (u, m) on the likes table lk
C4_Toggle(lk, u, m) == toggled(lk, u, m, <<u, m>> \in BagToSet(lk))

\* toggling twice, and three times, from the likes table of the state
C4_RoundTrip ==
    \A u \in DOMAIN users, m \in DOMAIN messages :
        messages[m].user_id # u =>
            LET once == C4_Toggle(likes, u, m)
                twice == C4_Toggle(once, u, m)
                thrice == C4_Toggle(twice, u, m)
            IN /\ twice = likes
               /\ <<u, m>> \notin BagToSet(likes) =>
                    /\ CopiesIn(<<u, m>>, once) = 1
                    /\ CopiesIn(<<u, m>>, twice) = 0
                    /\ CopiesIn(<<u, m>>, thrice) = 1
                    /\ thrice = likes (+) Row(<<u, m>>)

\* what the commit of one toggle_like does to the likes table
C4_Step ==
    \A s \in Sessions : toggle_like_commit(s) =>
        LET u == pending[s].user
            m == pending[s].message_id
        IN /\ u = g_user(s) /\ u # NoUser
           /\ m \in DOMAIN messages /\ messages[m].user_id # u
           /\ pending[s].liked = (<<u, m>> \in BagToSet(likes))
           /\ Op' = "toggle_like" /\ Result' = "OK" /\ Ended(s)
           /\ CopiesIn(<<u, m>>, likes') = IF CopiesIn(<<u, m>>, likes) = 0 THEN 1 ELSE 0
           /\ \A r \in (UserIds \X MsgIds) \ {<<u, m>>} :
                CopiesIn(r, likes') = CopiesIn(r, likes)

\* C4: for a signed-in user u and a message m of another user, toggle_like
\* adds the edge (u, m) when it is absent and removes it when it is present
\* and touches no other edge; so two toggles in a row give back the likes
\* table, and like, unlike, like leaves exactly one edge (u, m).
C4_ToggleLike == []C4_RoundTrip /\ [][C4_Step]_vars

\* a toggle_like has just emptied the likes table: a like followed by an unlike
C4_Witness ==
    /\ Op = "toggle_like" /\ Result = "OK"
    /\ likes = EmptyBag
    /\ DOMAIN messages # {}

\* no like edge joins a user to a message of their own
C5_NoSelfLike ==
    \A r \in BagToSet(likes) : r[2] \in DOMAIN messages /\ messages[r[2]].user_id # r[1]

\* toggle_like of a signed-in caller goes on to its query, and the request
\* of the owner of the message ends at the ownership test
C5_Step ==
    /\ \A s \in Sessions, m \in MsgIds :
        (g_user(s) # NoUser /\ toggle_like_begin(s, m)) =>
            pending'[s] = [pc |-> "toggle_like_get", user |-> g_user(s), message_id |-> m]
    /\ \A s \in Sessions :
        (/\ toggle_like_get(s)
         /\ pending[s].message_id \in DOMAIN messages
         /\ messages[pending[s].message_id].user_id = pending[s].user)
        => /\ Op' = "toggle_like" /\ Result' = "Forbidden"
           /\ Ended(s)
           /\ likes' = likes

\* C5: toggle_like by the owner of the message is answered with Forbidden and
\* leaves the likes table as it was; no reachable state holds a like edge
\* (u, m) whose user u owns the message m.
C5_OwnWarble == []C5_NoSelfLike /\ [][C5_Step]_vars

\* the owner of a stored message has just been refused the like
C5_Witness ==
    /\ Op = "toggle_like" /\ Result = "Forbidden"
    /\ \E s \in Sessions, m \in DOMAIN messages : messages[m].user_id = g_user(s)

\* the store after the commit of delete_user for user u
C6_Step ==
    \A s \in Sessions : delete_user_commit(s) =>
        LET u == pending[s].user
        IN /\ u = g_user(s) /\ u # NoUser
           /\ Op' = "delete_user" /\ Result' = "OK"
           /\ u \notin DOMAIN users'
           /\ \A m \in DOMAIN messages' : messages'[m].user_id # u
           /\ \A r \in BagToSet(follows') : r[1] # u /\ r[2] # u
           /\ \A r \in BagToSet(likes') : r[1] # u
           /\ \A o \in DOMAIN users \ {u} : o \in DOMAIN users' /\ users'[o] = users[o]
           /\ \A m \in DOMAIN messages :
                messages[m].user_id # u =>
                    m \in DOMAIN messages' /\ messages'[m] = messages[m]

\* C6: when delete_user for the signed-in user u completes, no stored message
\* is owned by u, no follow edge has u as follower or as followed, no like
\* edge has u as liker, and every other user and every message of another
\* user is stored as before.
C6_DeleteCascades == [][C6_Step]_vars

\* an account has just been deleted while a message of another user stays stored
C6_Witness ==
    /\ Op = "delete_user" /\ Result = "OK"
    /\ DOMAIN messages # {}
    /\ nextUserId > 2

\* the requests that need a signed-in caller, as session s starts them
Gated(s) ==
    \/ logout(s)
    \/ delete_user_begin(s)
    \/ \E id \in UserIds :
        \/ show_following_begin(s, id) \/ users_followers_begin(s, id) \/ view_likes_begin(s, id)
        \/ add_follow_begin(s, id) \/ stop_following_begin(s, id)
    \/ \E m \in MsgIds : toggle_like_begin(s, m) \/ messages_destroy_begin(s, m)
    \/ \E method \in Methods, text \in Texts : messages_add_begin(s, method, text)
    \/ \E method \in Methods, p \in People, q \in People, opt \in Blank :
        profile_begin(s, method, p.username, p.email, q.password, opt)

\* delete_user and the requests of a session without an identity
C7_Step ==
    /\ \A s \in Sessions :
        /\ delete_user_commit(s) =>
                /\ pending[s].user = g_user(s) /\ g_user(s) # NoUser
                /\ DOMAIN users' = DOMAIN users \ {g_user(s)}
                /\ session' = [session EXCEPT ![s] = NoUser]
                /\ Op' = "delete_user" /\ Result' = "OK" /\ Ended(s)
        /\ (session[s] = NoUser /\ session'[s] # NoUser) =>
                /\ Op' \in {"login", "signup"} /\ Result' = "OK"
    \* the sessions that send the requests of this specification
    /\ \A s \in Browser :
        (session[s] = NoUser /\ Gated(s)) =>
            /\ Result' = "Unauthenticated" /\ Ended(s)
            /\ session'[s] = NoUser /\ UNCHANGED store

\* C7: delete_user removes the account of the signed-in caller and no other
\* account, and leaves the caller's session without an identity; a session
\* without an identity is refused as unauthenticated by every request that
\* needs a signed-in caller, and gets an identity again only by a successful
\* login or signup.
C7_DeleteLogsOut == [][C7_Step]_vars

\* the caller's account has just been deleted: the session has no identity
\* and the other user is still stored
C7_Witness ==
    /\ Op = "delete_user" /\ Result = "OK"
    /\ \A s \in Sessions : session[s] = NoUser
    /\ DOMAIN users # {}

\* messages_destroy by the owner and by another signed-in user
C8_Step ==
    /\ \A s \in Sessions : messages_destroy_get(s) =>
            \/ pending[s].message_id \notin DOMAIN messages /\ Result' = "NotFound"
            \/ /\ pending[s].message_id \in DOMAIN messages
               /\ pending'[s] = [pc |-> "messages_destroy_owner", user |-> pending[s].user,
                                 message_id |-> pending[s].message_id,
                                 owner |-> messages[pending[s].message_id].user_id]
    /\ \A s \in Sessions : messages_destroy_owner(s) =>
            /\ pending[s].user = g_user(s) /\ g_user(s) # NoUser
            /\ IF pending[s].owner = g_user(s)
               THEN pending'[s] = [pc |-> "messages_destroy_commit", user |-> g_user(s),
                                   message_id |-> pending[s].message_id]
               ELSE /\ Op' = "messages_destroy" /\ Result' = "Forbidden"
                    /\ Ended(s) /\ messages' = messages
    /\ \A s \in Sessions : messages_destroy_commit(s) =>
            /\ pending[s].message_id \in DOMAIN messages
            /\ messages[pending[s].message_id].user_id = g_user(s)
            /\ messages' = Without(messages, {pending[s].message_id})
            /\ At(s, "messages_destroy_redirect")'
    /\ \A s \in Sessions : messages_destroy_redirect(s) =>
            Op' = "messages_destroy" /\ Result' = "OK" /\ Ended(s) /\ messages' = messages
    /\ \A m \in DOMAIN messages \ DOMAIN messages' :
            \E s \in Sessions :
                /\ g_user(s) = messages[m].user_id
                /\ \/ messages_destroy_commit(s) /\ pending[s].message_id = m
                   \/ delete_user_commit(s)

\* C8: messages_destroy from a signed-in caller removes the message when the
\* caller owns it, and is answered with Forbidden and leaves the messages
\* table as it was when the caller is any other user; a message leaves the
\* table only on a request of its owner.
C8_DeleteOwnMessage == [][C8_Step]_vars

\* another signed-in user has just been refused and the message is still stored
C8_Witness ==
    /\ Op = "messages_destroy" /\ Result = "Forbidden"
    /\ \E s \in Sessions, m \in DOMAIN messages :
        g_user(s) # NoUser /\ messages[m].user_id # g_user(s)

\* the requests that change the store, as session s starts them
Mutating(s) ==
    \/ delete_user_begin(s)
    \/ \E id \in UserIds : add_follow_begin(s, id) \/ stop_following_begin(s, id)
    \/ \E m \in MsgIds : toggle_like_begin(s, m) \/ messages_destroy_begin(s, m)
    \/ \E method \in Methods, text \in Texts : messages_add_begin(s, method, text)
    \/ \E method \in Methods, p \in People, q \in People, opt \in Blank :
        profile_begin(s, method, p.username, p.email, q.password, opt)

\* the round trips of those requests after the load of g.user
MutatingCommit(s) ==
    \/ delete_user_commit(s)
    \/ add_follow_get(s) \/ add_follow_append(s) \/ add_follow_commit(s)
    \/ stop_following_load(s) \/ stop_following_commit(s)
    \/ toggle_like_get(s) \/ toggle_like_likes(s) \/ toggle_like_commit(s)
    \/ messages_destroy_get(s) \/ messages_destroy_owner(s) \/ messages_destroy_commit(s)
    \/ messages_add_commit(s, clock)
    \/ profile_confirm(s) \/ profile_commit(s)

\* a mutating request of an anonymous session is answered, and cannot end
\* otherwise than turned away where it starts with the store as it was
C9_TurnedAway ==
    \A s \in Browser \cap Free : g_user(s) = NoUser =>
        /\ ENABLED Mutating(s)
        /\ ~ENABLED (/\ Mutating(s)
                     /\ \/ response'.result # "Unauthenticated"
                        \/ pending' # pending
                        \/ store' # store)

\* no later round trip is one of an anonymous session
C9_Step == \A s \in Sessions : g_user(s) = NoUser => ~MutatingCommit(s)

\* C9: post message, delete message, toggle like, follow, stop following,
\* edit profile and delete account, requested from a session with no
\* signed-in user, leave users, messages, follows and likes unchanged: such
\* a request is turned away before it reads or writes anything else.
C9_AnonymousChangesNothing == []C9_TurnedAway /\ [][C9_Step]_vars

\* an anonymous request has just been turned away while the store holds
\* users, a message, a follow edge and a like edge
C9_Witness ==
    /\ Result = "Unauthenticated"
    /\ \A s \in Sessions : session[s] = NoUser
    /\ DOMAIN users # {} /\ DOMAIN messages # {}
    /\ follows # EmptyBag /\ likes # EmptyBag

\* the two projections of the follows table agree
C10_TwoViews ==
    \A a \in UserIds, b \in UserIds :
        /\ (b \in following(a)) <=> (a \in followers(b))
        /\ is_following(a, b) <=> is_followed_by(b, a)

\* the two views after the commit of add_follow and of stop_following
C10_Step ==
    \A s \in Sessions :
        /\ add_follow_commit(s) =>
            \A a \in {pending[s].user}, b \in {pending[s].follow_id} :
                /\ a = g_user(s) /\ a # NoUser
                /\ At(s, "add_follow_redirect")'
                /\ is_following(a, b)' /\ is_followed_by(b, a)'
                /\ a \in followers(b)' /\ b \in following(a)'
        /\ add_follow_redirect(s) =>
                Op' = "add_follow" /\ Result' = "OK" /\ Ended(s) /\ follows' = follows
        /\ stop_following_commit(s) =>
            \A a \in {pending[s].user}, b \in {pending[s].follow_id} :
                /\ a = g_user(s) /\ a # NoUser
                /\ At(s, "stop_following_redirect")'
                /\ ~is_following(a, b)' /\ ~is_followed_by(b, a)'
                /\ a \notin followers(b)' /\ b \notin following(a)'
        /\ stop_following_redirect(s) =>
                Op' = "stop_following" /\ Result' = "OK" /\ Ended(s) /\ follows' = follows

\* C10: following and followers are two views of the follows table: b is in
\* following(a) exactly when a is in followers(b); after a follows b both
\* hold, and after a stops following b neither holds.
C10_FollowViews == []C10_TwoViews /\ [][C10_Step]_vars

\* a user has followed another one and then stopped: the table is empty again
C10_Witness ==
    /\ Op = "stop_following" /\ Result = "OK"
    /\ follows = EmptyBag
    /\ Cardinality(DOMAIN users) = 2

\* add_follow by a caller who already follows the user: the request finds
\* the user in the loaded collection and goes on to its commit, which adds
\* nothing, and to its redirect
C11_Step ==
    \A s \in Sessions :
        /\ \A b \in UserIds :
            (g_user(s) # NoUser /\ is_following(g_user(s), b) /\ add_follow_begin(s, b)) =>
                pending'[s] = [pc |-> "add_follow_get", user |-> g_user(s), follow_id |-> b]
        /\ (add_follow_get(s) /\ is_following(pending[s].user, pending[s].follow_id)) =>
                pending'[s] = [pc |-> "add_follow_append", user |-> pending[s].user,
                               follow_id |-> pending[s].follow_id]
        /\ (add_follow_append(s) /\ is_following(pending[s].user, pending[s].follow_id)) =>
                pending'[s] = [pc |-> "add_follow_commit", user |-> pending[s].user,
                               follow_id |-> pending[s].follow_id, held |-> TRUE]
        /\ (add_follow_commit(s) /\ is_following(pending[s].user, pending[s].follow_id)) =>
                /\ pending[s].user = g_user(s) /\ pending[s].held
                /\ At(s, "add_follow_redirect")'
                /\ follows' = follows
                /\ CopiesIn(<<pending[s].user, pending[s].follow_id>>, follows') = 1
        /\ add_follow_redirect(s) =>
                Op' = "add_follow" /\ Result' = "OK" /\ Ended(s) /\ follows' = follows

\* C11: when the signed-in user A already follows B, a further add_follow of
\* B by A is answered with success and leaves the follows table as it was,
\* with one edge (A, B).
C11_FollowIdempotent == [][C11_Step]_vars

\* a follow was answered with success, and the next request, a follow again,
\* has committed and waits for its redirect: the caller's one edge is stored once
C11_Witness ==
    /\ Op = "add_follow" /\ Result = "OK"
    /\ \E s \in Sessions, b \in UserIds :
        /\ At(s, "add_follow_redirect")
        /\ g_user(s) = pending[s].user
        /\ follows = Row(<<g_user(s), b>>)

\* C12: in every reachable state the follows table holds each pair
\* (follower, followed) at most once and the likes table holds each pair
\* (user, message) at most once.
C12_UniqueEdges ==
    /\ \A r \in BagToSet(follows) : CopiesIn(r, follows) = 1
    /\ \A r \in BagToSet(likes) : CopiesIn(r, likes) = 1

\* two follow requests of one user for one pair have run together: the
\* INSERT of the second one has just been refused, the pair is stored once,
\* and a like is stored
C12_Witness ==
    /\ Op = "add_follow" /\ Result = "UnhandledError"
    /\ \E r \in BagToSet(follows) : CopiesIn(r, follows) = 1
    /\ likes # EmptyBag

\* stop_following by a signed-in caller, for a followed and for any other user id
C13_Step ==
    \A s \in Sessions :
        /\ \A b \in UserIds :
            (g_user(s) # NoUser /\ stop_following_begin(s, b)) =>
                pending'[s] = [pc |-> "stop_following_load", user |-> g_user(s),
                               follow_id |-> b]
        /\ stop_following_load(s) =>
                IF is_following(pending[s].user, pending[s].follow_id)
                THEN pending'[s] = [pc |-> "stop_following_commit", user |-> pending[s].user,
                                    follow_id |-> pending[s].follow_id]
                ELSE /\ Op' = "stop_following" /\ Result' = "NotFollowing"
                     /\ Ended(s)
                     /\ follows' = follows
        /\ stop_following_commit(s) =>
            LET a == pending[s].user
                b == pending[s].follow_id
            IN /\ a = g_user(s) /\ is_following(a, b)
               /\ At(s, "stop_following_redirect")'
               /\ \A r \in UserIds \X UserIds :
                    CopiesIn(r, follows') = IF r = <<a, b>> THEN 0 ELSE CopiesIn(r, follows)
        /\ stop_following_redirect(s) =>
                Op' = "stop_following" /\ Result' = "OK" /\ Ended(s) /\ follows' = follows

\* C13: stop_following by the signed-in user A for a user id B that A does
\* not follow, stored or not, is answered with the not-following condition
\* and leaves the follows table as it was; when A follows B it removes the
\* edge (A, B) and no other edge.
C13_StopFollowing == [][C13_Step]_vars

\* a stop_following has just been refused while the caller follows someone
\* and one of the user ids names no stored user
C13_Witness ==
    /\ Op = "stop_following" /\ Result = "NotFollowing"
    /\ follows # EmptyBag
    /\ \E b \in UserIds : b \notin DOMAIN users

\* the messages whose owner is a or a user that a follows
C14_Eligible(a) ==
    {m \in DOMAIN messages : messages[m].user_id = a \/ is_following(a, messages[m].user_id)}

\* page lists eligible messages only, each once, every one no older than the
\* next, as many as there are up to n, and leaves out none that is newer
\* than one it lists
C14_IsFeed(page, a, n) ==
    LET eligible == C14_Eligible(a)
        listed == {page[i] : i \in DOMAIN page}
    IN /\ listed \subseteq eligible
       /\ Cardinality(listed) = Len(page)
       /\ \A i \in 1..(Len(page) - 1) :
            messages[page[i]].timestamp >= messages[page[i + 1]].timestamp
       /\ Len(page) <= n
       /\ Len(page) = Min(n, Cardinality(eligible))
       /\ \A m \in eligible \ listed :
            \A i \in DOMAIN page : messages[m].timestamp <= messages[page[i]].timestamp

\* the round trips of the home page of a signed-in caller: the query lists
\* the feed and the page shows it
C14_Step ==
    \A s \in Sessions :
        /\ homepage_messages(s) =>
            /\ pending[s].user = g_user(s) /\ g_user(s) # NoUser
            /\ At(s, "homepage_likes")'
            /\ C14_IsFeed(pending'[s].page, pending[s].user, FeedLimit)
        /\ homepage_likes(s) =>
            /\ Op' = "homepage" /\ Result' = "OK" /\ Ended(s)
            /\ response'.user = g_user(s)
            /\ response'.messages = pending[s].page
            /\ C14_IsFeed(response'.messages, response'.user, FeedLimit)

\* C14: the home page of the signed-in user A lists only messages whose owner
\* is A or a user A follows, by timestamp descending, at most 100 of them, and
\* the 100 most recent ones when more than 100 are eligible.
C14_HomeFeed == [][C14_Step]_vars

\* more than 100 messages are eligible for the home page of the caller, who
\* follows the other user: the page lists 100 of them, messages of the
\* followed user among them, and leaves out the caller's own oldest message
C14_Witness ==
    /\ Op = "homepage" /\ Result = "OK"
    /\ Cardinality(C14_Eligible(response.user)) > FeedLimit
    /\ Len(response.messages) = FeedLimit
    /\ \E i \in DOMAIN response.messages :
            messages[response.messages[i]].user_id # response.user
    /\ \E m \in DOMAIN messages :
            /\ messages[m].user_id = response.user
            /\ \A i \in DOMAIN response.messages : response.messages[i] # m

\* C15: messages of equal timestamp are listed by id descending, on the
\* home page and on the page of a user.
C15_TieBreak ==
    (Op \in {"homepage", "users_show"} /\ Result = "OK") =>
        \A i \in DOMAIN response.messages, j \in DOMAIN response.messages :
            (i < j /\ messages[response.messages[i]].timestamp
                        = messages[response.messages[j]].timestamp)
            => response.messages[i] > response.messages[j]

\* the request that a profile() of session s leaves for User.confirm_password
C16_Stashed(s, username, email, password, opt) ==
    [pending EXCEPT ![s] = [pc |-> "profile_confirm", user |-> g_user(s),
                            row |-> users[g_user(s)], username |-> username,
                            email |-> email, password |-> password, opt |-> opt]]

\* what profile() may do up to User.confirm_password: nothing to the users
\* table; a valid submission goes on with its fields, any other one ends
C16_Allowed(s, method, username, email, password, opt) ==
    /\ users' = users
    /\ IF validate_on_submit(method, EditProfileFormValid(username, email, password))
       THEN pending' = C16_Stashed(s, username, email, password, opt)
       ELSE pending' = pending /\ response'.result # "OK"

\* every profile() of a signed-in session is answered, and none can do
\* otherwise than allowed
C16_Checked ==
    \A s \in Browser \cap Free : g_user(s) # NoUser =>
        \A method \in Methods, username \in Usernames, email \in Emails,
           password \in Passwords, opt \in Optionals :
            /\ ENABLED profile_begin(s, method, username, email, password, opt)
            /\ ~ENABLED (/\ profile_begin(s, method, username, email, password, opt)
                         /\ ~C16_Allowed(s, method, username, email, password, opt))

\* User.confirm_password lets the request go on with the caller's password
\* only, and the commit of profile() changes the row of the caller only, and
\* not its password
C16_Step ==
    \A s \in Sessions :
        /\ profile_confirm(s) =>
            LET u == pending[s].user
            IN /\ u = g_user(s) /\ u # NoUser
               /\ users' = users
               /\ IF check_password_hash(users[u].password, pending[s].password)
                  THEN pending'[s] = profile_assigned(pending[s])
                  ELSE Op' = "profile" /\ Result' = "WrongPassword" /\ Ended(s)
        /\ profile_commit(s) =>
            LET u == pending[s].user
            IN /\ u = g_user(s) /\ u # NoUser
               /\ Op' = "profile" /\ Result' # "WrongPassword"
               /\ \A o \in DOMAIN users \ {u} : o \in DOMAIN users' /\ users'[o] = users[o]
               /\ users'[u].password = users[u].password

\* C16: profile() changes stored fields of the caller only, and only when the
\* submitted password matches the caller's own stored credential; with any
\* other password a valid submission is answered with the wrong-password
\* failure and every stored field of every user stays as it was.
C16_EditNeedsPassword == []C16_Checked /\ [][C16_Step]_vars

\* a profile edit has just been refused for its password while two users with
\* different credentials are stored: the other user's password was no help
C16_Witness ==
    /\ Op = "profile" /\ Result = "WrongPassword"
    /\ \E a \in DOMAIN users, b \in DOMAIN users : users[a].password # users[b].password

\* the commit of profile() with a username or email that another user has,
\* or that nobody else has
C17_Step ==
    \A s \in Sessions : profile_commit(s) =>
        LET u == pending[s].user
            username == pending[s].assigned.username
            email == pending[s].assigned.email
        IN /\ u = g_user(s) /\ u # NoUser
           /\ Op' = "profile" /\ Ended(s)
           /\ IF \E o \in DOMAIN users \ {u} :
                    users[o].username = username \/ users[o].email = email
              THEN /\ Result' = "Conflict" /\ Result' # "WrongPassword"
                   /\ users' = users
              ELSE /\ Result' = "OK"
                   /\ users' = [users EXCEPT ![u] = pending[s].assigned]
           /\ (username = users[u].username /\ email = users[u].email) => Result' = "OK"

\* C17: profile() with the caller's password and a username or email that a
\* different user holds is answered with Conflict, not with the
\* wrong-password failure, and leaves the users table as it was; with the
\* caller's own current username and email it succeeds.
C17_EditConflict == [][C17_Step]_vars

\* a profile edit has just succeeded while the other person is stored too:
\* the caller submitted the username and email the row already had
C17_Witness ==
    /\ Op = "profile" /\ Result = "OK"
    /\ \A p \in People : \E u \in DOMAIN users : users[u].username = p.username

\* C19: messages_add with an empty text, or with a text of more than 140
\* characters, is answered with ValidationError and stores no message.
C19_RejectsBadText ==
    [][\A s \in Sessions, text \in AllTexts :
        (/\ g_user(s) # NoUser
         /\ text = "" \/ Len(text) > MaxTextLen
         /\ messages_add_begin(s, "POST", text))
        => /\ Op' = "messages_add" /\ Result' = "ValidationError"
           /\ Ended(s)
           /\ messages' = messages]_vars

\* the owner of every stored message is a stored user
C18_Owned == \A m \in DOMAIN messages : messages[m].user_id \in DOMAIN users

\* the owner of a message that stays stored, and what the commit of a post adds
C18_Step ==
    /\ \A m \in DOMAIN messages \cap DOMAIN messages' :
        messages'[m].user_id = messages[m].user_id
    /\ \A s \in Sessions :
        /\ (messages_add_commit(s, clock) /\ At(s, "messages_add_redirect")') =>
            /\ pending[s].user = g_user(s) /\ g_user(s) # NoUser
            /\ nextMsgId \notin DOMAIN messages
            /\ DOMAIN messages' = DOMAIN messages \cup {nextMsgId}
            /\ messages'[nextMsgId].user_id = g_user(s)
            /\ messages'[nextMsgId].text = pending[s].text
            /\ \A m \in DOMAIN messages : messages'[m] = messages[m]
        /\ messages_add_redirect(s) =>
            /\ Op' = "messages_add" /\ Result' = "OK" /\ Ended(s)
            /\ messages' = messages

\* C18: in every reachable state the owner of each stored message is a stored
\* user; a successful post adds one message, owned by the signed-in caller,
\* and no step changes the owner of a message that stays stored.
C18_MessageOwner == []C18_Owned /\ [][C18_Step]_vars

\* the second user has just posted a message
C18_Witness ==
    /\ Op = "messages_add" /\ Result = "OK"
    /\ Cardinality(DOMAIN users) = 2
    /\ \E m \in DOMAIN messages : messages[m].user_id = 2

\* what a login may do: sign the anonymous caller in as the user of the
\* username whose password it is, or fail and leave the sessions as they were
C20_LoginAllowed(s, username, password) ==
    /\ response'.result = "OK" =>
        /\ g_user(s) = NoUser /\ g_user(s)' # NoUser
        /\ users[g_user(s)'].username = username
        /\ check_password_hash(users[g_user(s)'].password, password)
    /\ response'.result = "AuthenticationFailed" =>
        session' = session /\ g_user(s) = NoUser
    \* login and signup answer as themselves or with the common redirect
    /\ g_user(s) # NoUser =>
        /\ response'.result = "AlreadySignedIn" /\ pending' = pending
        /\ session' = session /\ users' = users

\* no login can do otherwise than allowed, and no signup of a signed-in
\* session can do otherwise than be turned away
C20_Guarded ==
    \A s \in Browser \cap Free, method \in Methods, p \in People, q \in People :
        /\ ENABLED login(s, method, p.username, q.password)
        /\ ~ENABLED (/\ login(s, method, p.username, q.password)
                     /\ ~C20_LoginAllowed(s, p.username, q.password))
        /\ g_user(s) # NoUser =>
            \A opt \in Blank, salt \in Salts :
                /\ ENABLED signup_begin(s, method, p.username, p.email, q.password, opt, salt)
                /\ ~ENABLED (/\ signup_begin(s, method, p.username, p.email, q.password,
                                              opt, salt)
                             /\ \/ response'.result # "AlreadySignedIn"
                                \/ pending' # pending
                                \/ session' # session
                                \/ users' # users)

\* the steps that change the identity of a session, and the steps that do not
C20_Step ==
    /\ \A s \in Sessions :
        g_user(s)' # g_user(s) =>
            \/ /\ g_user(s) = NoUser /\ g_user(s)' \in DOMAIN users'
               /\ Op' \in {"login", "signup"} /\ Result' = "OK"
            \/ /\ g_user(s) # NoUser /\ g_user(s)' = NoUser
               /\ Op' \in {"logout", "delete_user"} /\ Result' = "OK"
    /\ \A s \in Browser :
        /\ signup_commit(s) => session' = session
        /\ (signup_login(s) /\ Result' = "OK") =>
            g_user(s) = NoUser /\ g_user(s)' = pending[s].user
        /\ (logout(s) /\ Result' = "OK") \/ delete_user_commit(s) =>
            g_user(s) # NoUser /\ g_user(s)' = NoUser

\* C20: the identity of a session changes only from anonymous to a stored
\* user by a successful login or signup, and from a user to anonymous by
\* logout or delete_user; a failed login leaves the session anonymous, login
\* and signup from a signed-in session leave the identity and the users table
\* as they were, and every other request leaves the identity as it was.
C20_SessionTransitions == []C20_Guarded /\ [][C20_Step]_vars

\* a signed-in session has just been turned away from login or signup while
\* the other person's account is stored
C20_Witness ==
    /\ Result = "AlreadySignedIn"
    /\ \E s \in Browser : g_user(s) # NoUser
    /\ Cardinality(DOMAIN users) = 2

\* what a login can report, and the sessions it can leave behind
C21_Replies ==
    {[op |-> "login", result |-> r] :
        r \in {"OK", "AuthenticationFailed", "ValidationError", "Form"}}
C21_SessionStates == [Sessions -> UserIds \cup {NoUser}]

\* the login of (username, password) from session s is answered with reply
\* and leaves the sessions as ses and the store as it was
C21_Outcome(s, username, password, reply, ses) ==
    ENABLED (/\ login(s, "POST", username, password)
             /\ response' = reply
             /\ session' = ses
             /\ store' = store)

\* C21: from an anonymous session, a login with a username that no user has
\* and a login with a stored username and a password that is not that
\* user's are answered with the same reply and leave the same session state.
C21_LoginIndistinguishable ==
    \A s \in Free : g_user(s) = NoUser =>
    \A m \in Usernames, n \in Usernames :
        (DataRequired(m) /\ UsersNamed(m) = {} /\ UsersNamed(n) # {}) =>
    \A p \in Passwords, q \in Passwords :
        (/\ DataRequired(p) /\ DataRequired(q)
         /\ \A u \in UsersNamed(n) : ~check_password_hash(users[u].password, q)) =>
        \E reply \in C21_Replies, ses \in C21_SessionStates :
            /\ C21_Outcome(s, m, p, reply, ses)
            /\ C21_Outcome(s, n, q, reply, ses)

\* a login has just failed in a state where one username is stored and
\* another one is not: either cause can have been the one
C21_Witness ==
    /\ Op = "login" /\ Result = "AuthenticationFailed"
    /\ \E m \in Usernames, n \in Usernames :
        DataRequired(m) /\ UsersNamed(m) = {} /\ UsersNamed(n) # {}

\* the signup can end otherwise than refused at validation with the users
\* table, the id counter and the sessions as they were
C23_Otherwise(s, username, email, password, opt, salt) ==
    ENABLED (/\ signup_begin(s, "POST", username, email, password, opt, salt)
             /\ \/ response' # [op |-> "signup", result |-> "ValidationError"]
                \/ pending' # pending
                \/ users' # users
                \/ nextUserId' # nextUserId
                \/ session' # session
                \/ g_user(s)' # NoUser)

\* C23: a signup from an anonymous session with a password shorter than 6
\* characters, or with an empty username, email or password, fails
\* validation, stores no user and leaves the session anonymous.
C23_SignupValidation ==
    \A s \in Free : g_user(s) = NoUser =>
    \A username \in Usernames, email \in Emails, password \in Passwords :
        (username = "" \/ email = "" \/ password = "" \/ Len(password) < 6) =>
    \A opt \in Blank, salt \in Salts :
        /\ ENABLED signup_begin(s, "POST", username, email, password, opt, salt)
        /\ ~C23_Otherwise(s, username, email, password, opt, salt)

\* a signup has just failed validation with nobody signed in and no user stored
C23_Witness ==
    /\ Op = "signup" /\ Result = "ValidationError"
    /\ \A s \in Sessions : session[s] = NoUser
    /\ users = <<>>

\* every like edge is of a stored message
C26_NoDanglingLike == \A r \in BagToSet(likes) : r[2] \in DOMAIN messages

\* the likes table after the commit of messages_destroy for message m
C26_Step ==
    \A s \in Sessions : messages_destroy_commit(s) =>
        \A m \in {pending[s].message_id} :
            /\ At(s, "messages_destroy_redirect")'
            /\ m \notin DOMAIN messages'
            /\ \A r \in BagToSet(likes') : r[2] # m
            /\ \A u \in DOMAIN users' : m \notin user_likes(u)'
            /\ \A r \in UserIds \X TabMsgIds :
                r[2] # m => CopiesIn(r, likes') = CopiesIn(r, likes)

\* C26: when messages_destroy for message m completes, no like edge of m is
\* stored, m is in no user's liked messages, and the like edges of every
\* other message are as before; no state holds a like edge of a message that
\* is not stored.
C26_DeleteMessageLikes == []C26_NoDanglingLike /\ [][C26_Step]_vars

\* a message has just been deleted by its owner, who still likes the other
\* user's message
C26_Witness ==
    /\ Op = "messages_destroy" /\ Result = "OK"
    /\ Cardinality(DOMAIN messages) = 1
    /\ \E s \in Sessions : g_user(s) # NoUser /\ user_likes(g_user(s)) # {}

\* the session holds the id of a user that is no longer stored
C27_Stale(s) == session[s] # NoUser /\ session[s] \notin DOMAIN users

\* the later round trips of the requests that a session of this
\* specification has begun
TabCommit(s) ==
    \/ delete_user_commit(s)
    \/ messages_add_commit(s, clock) \/ messages_add_redirect(s)
    \/ toggle_like_get(s) \/ toggle_like_likes(s) \/ toggle_like_commit(s)
    \/ messages_destroy_get(s) \/ messages_destroy_owner(s)
    \/ messages_destroy_commit(s) \/ messages_destroy_redirect(s)

\* every request that a stale session starts and that needs a signed-in
\* caller is answered, and none of them can end otherwise than refused with
\* the store and the sessions as they were
C27_Refused ==
    \A s \in Free : C27_Stale(s) =>
        /\ g_user(s) = NoUser
        /\ ENABLED TabGated(s)
        /\ ~ENABLED (/\ TabGated(s)
                     /\ \/ response'.result # "Unauthenticated"
                        \/ pending' # pending
                        \/ store' # store
                        \/ session' # session)

\* a stale session acts as a user again only by a login or signup of its own,
\* and then as another user than the deleted one; a request that it had
\* begun before the user was deleted leaves the store as it was
C27_Step ==
    \A s \in Sessions : C27_Stale(s) =>
        /\ (At(s, "idle") /\ TabGated(s)) =>
            Result' = "Unauthenticated" /\ Ended(s) /\ UNCHANGED <<store, session>>
        /\ TabCommit(s) => UNCHANGED store /\ g_user(s)' = NoUser
        /\ g_user(s)' # NoUser =>
            /\ Op' \in {"login", "signup"} /\ Result' = "OK"
            /\ g_user(s)' # session[s]

\* C27: a session whose id names a user that another session has deleted is
\* treated as anonymous: every request from it that needs a signed-in caller
\* is refused as unauthenticated and leaves the store and the sessions as
\* they were, the id it holds never names a user again, and it acts as a
\* user only after a successful login or signup of its own.
C27_StaleSession ==
    /\ [](C27_Refused /\ \A s \in Sessions : session[s] < nextUserId)
    /\ [][C27_Step]_vars

\* a request has just been refused as unauthenticated while a session holds
\* the id of a deleted user and the other user and their message are stored
C27_Witness ==
    /\ Result = "Unauthenticated"
    /\ \E s \in Sessions : C27_Stale(s)
    /\ DOMAIN users # {} /\ DOMAIN messages # {}

\* the two rows cannot both be stored: same username or same email
C22_Clash(a, b) == a.username = b.username \/ a.email = b.email

\* no two stored rows clash: of the signups with one username or one email,
\* at most one has stored its row
C22_AtMostOne ==
    \A a \in DOMAIN users, b \in DOMAIN users : a # b => ~C22_Clash(users[a], users[b])

\* the commit of a signup: Conflict and nothing stored when a stored row
\* clashes, else the row is stored under a new id; and the sign-in that
\* follows the commit
C22_Step ==
    \A s \in Sessions :
        /\ signup_commit(s) =>
            LET row == pending[s].row
            IN /\ \A t \in Sessions \ {s} : pending'[t] = pending[t]
               /\ session' = session
               /\ IF \E o \in DOMAIN users : C22_Clash(users[o], row)
                  THEN /\ Op' = "signup" /\ Result' = "Conflict" /\ Ended(s)
                       /\ users' = users
                       /\ g_user(s)' = NoUser
                  ELSE /\ pending'[s] = [pc |-> "signup_login", user |-> nextUserId]
                       /\ DOMAIN users' = DOMAIN users \cup {nextUserId}
                       /\ nextUserId \notin DOMAIN users
                       /\ users'[nextUserId] = row
                       /\ \A o \in DOMAIN users : users'[o] = users[o]
                       \* of two signups under way together with clashing rows,
                       \* the one that commits first leaves the other to be refused
                       /\ \A t \in Sessions \ {s} :
                            (At(t, "signup_commit") /\ C22_Clash(pending[t].row, row)) =>
                                \E o \in DOMAIN users' : C22_Clash(users'[o], pending'[t].row)
        /\ signup_login(s) =>
            /\ Op' = "signup" /\ Ended(s)
            /\ users' = users
            /\ \A t \in Sessions \ {s} : pending'[t] = pending[t] /\ session'[t] = session[t]
            /\ IF pending[s].user \in DOMAIN users
               THEN Result' = "OK" /\ g_user(s)' = pending[s].user
               ELSE Result' # "OK" /\ session' = session

\* C22: when two signups with the same username or the same email are under
\* way together, whichever way their steps interleave, at most one of them
\* stores its row and is signed in as it; the one that commits second is
\* answered with Conflict, stores no row and leaves its caller anonymous.
C22_ConcurrentSignup == []C22_AtMostOne /\ [][C22_Step]_vars

\* two signups are under way together: the one of session s has stored the
\* only row that was ever stored and has not signed its caller in yet, and
\* the one of session t has just been answered with Conflict, which leaves
\* its caller anonymous
C22_Witness ==
    \E s \in Sessions, t \in Sessions :
        /\ s # t
        /\ At(s, "signup_login") /\ session[s] = NoUser
        /\ DOMAIN users = {pending[s].user}
        /\ nextUserId = 2
        /\ At(t, "idle") /\ session[t] = NoUser
        /\ Op = "signup" /\ Result = "Conflict"

\* C24: a toggle_like takes effect as one toggle of the edge at its commit,
\* whatever came between its read and its commit, so that two toggles of the
\* same (user, message) pair that run together leave the likes that the two
\* leave when one runs after the other, and each is answered OK.
C24_AtomicToggle ==
    [][\A s \in Sessions : toggle_like_commit(s) =>
            /\ likes' = C4_Toggle(likes, pending[s].user, pending[s].message_id)
            /\ Result' = "OK"]_vars

\* the replies of a request that ended as the error taxonomy says
C25_Typed ==
    {"None", "OK", "Form", "Anonymous", "AlreadySignedIn", "WrongPassword", "NotFollowing",
     "NotFound", "Conflict", "ValidationError", "Forbidden", "Unauthenticated",
     "AuthenticationFailed"}

\* C25: every request ends in a success or in one of the typed failures
\* (NotFound, Conflict, ValidationError, Forbidden, Unauthenticated,
\* AuthenticationFailed); an integrity violation at a commit is reported as
\* Conflict and never leaves the view function as an error.
C25_TypedResults == Result \in C25_Typed
====
